---- MODULE Spec2Model ----
(***************************************************************************)
(* Model of src/main.go: the V-Bucks missions Telegram bot.                *)
(*                                                                         *)
(* Strings are sequences of one-character strings.  The character "<FF>"   *)
(* stands for a byte that is not valid UTF-8 and "<FFFD>" for the Unicode  *)
(* replacement rune U+FFFD; "<grave>" stands for the grave accent (ASCII   *)
(* 0x60), which the parser cannot read inside a string.  Time is counted   *)
(* in ticks; a UTC day has TicksPerDay ticks and tick ResetTick of a day   *)
(* is 00:10:00 UTC.  The machine int is IntBits wide instead of 64.        *)
(***************************************************************************)
EXTENDS Integers, Sequences, FiniteSets, TLC

VARIABLES
    now,            \* the wall clock (time.Now().UTC()), in ticks
    cacheFile,      \* content of vbucks_cache.json on disk
    pc,             \* position of the update-handling goroutine / the process
    pending,        \* number of updates waiting in the updates channel
    running,        \* number of getMissions executions started and not returned
    page,           \* text fragments of the div.infonotice elements being scraped
    vbucksMissions, \* getMissions' / fetchMissions' result slice
    cacheData,      \* loadFromCache's first result
    cacheValid,     \* loadFromCache's second result
    sent,           \* the last message handed to bot.Send
    loadErr,        \* which early return loadFromCache took last
    prevCall,       \* history: the load error and the cache write of the last
                    \* getMissions call that returned
    fetchErr,       \* whether c.Visit returned an error
    lastSave        \* history: argument and time of the last saveToCache that wrote the file

vars == <<now, cacheFile, pc, pending, running, page, vbucksMissions, cacheData,
          cacheValid, sent, loadErr, prevCall, fetchErr, lastSave>>

----------------------------------------------------------------------------
(* Bounds of the model *)

MaxPieces == 5
MaxMissions == 2
MaxTextLen == 2
MaxPending == 1
BotDays == 2
LoadDays == 5
TicksPerDay == 4
DaysPerMonth == 2
MonthsPerYear == 2
IntBits == 8

(* 00:10:00 UTC as a tick of the day: ticks 0 and 1 are 00:05 and 00:08 *)
ResetTick == 2

----------------------------------------------------------------------------
(* package strings *)

Digits == <<"0", "1", "2", "3", "4", "5", "6", "7", "8", "9">>

IsDigit(c) == \E i \in 1..10 : Digits[i] = c

IsSpace(c) == c \in {" ", "\t", "\n"}

SliceFrom(s, i) == SubSeq(s, i, Len(s))

RECURSIVE TrimLeft(_)
TrimLeft(s) ==
    IF s # <<>> /\ IsSpace(Head(s)) THEN TrimLeft(Tail(s)) ELSE s

RECURSIVE TrimRight(_)
TrimRight(s) ==
    IF s # <<>> /\ IsSpace(s[Len(s)]) THEN TrimRight(SubSeq(s, 1, Len(s) - 1)) ELSE s

TrimSpace(s) == TrimRight(TrimLeft(s))

HasPrefixAt(s, sep, i) ==
    /\ i + Len(sep) - 1 <= Len(s)
    /\ SubSeq(s, i, i + Len(sep) - 1) = sep

Index(s, sep) ==
    IF \E i \in 1..Len(s) : HasPrefixAt(s, sep, i)
    THEN CHOOSE i \in 1..Len(s) :
            /\ HasPrefixAt(s, sep, i)
            /\ \A j \in 1..(i - 1) : ~HasPrefixAt(s, sep, j)
    ELSE 0

Contains(s, sub) == Index(s, sub) # 0

RECURSIVE Split(_, _)
Split(s, sep) ==
    LET i == Index(s, sep)
    IN  IF i = 0 THEN <<s>>
        ELSE <<SubSeq(s, 1, i - 1)>> \o Split(SliceFrom(s, i + Len(sep)), sep)

RECURSIVE FieldsFrom(_, _)
FieldsFrom(s, cur) ==
    IF s = <<>> THEN (IF cur = <<>> THEN <<>> ELSE <<cur>>)
    ELSE IF IsSpace(Head(s))
         THEN (IF cur = <<>> THEN <<>> ELSE <<cur>>) \o FieldsFrom(Tail(s), <<>>)
         ELSE FieldsFrom(Tail(s), Append(cur, Head(s)))

Fields(s) == FieldsFrom(s, <<>>)

RECURSIVE Join(_, _)
Join(elems, sep) ==
    IF elems = <<>> THEN <<>>
    ELSE IF Len(elems) = 1 THEN elems[1]
    ELSE elems[1] \o sep \o Join(Tail(elems), sep)

RECURSIVE ReplaceAll(_, _, _)
ReplaceAll(s, old, new) ==
    IF s = <<>> THEN <<>>
    ELSE IF Head(s) = old THEN new \o ReplaceAll(Tail(s), old, new)
    ELSE <<Head(s)>> \o ReplaceAll(Tail(s), old, new)

----------------------------------------------------------------------------
(* fetchMissions: the OnHTML callback *)

PromoPhrase ==
    <<"U", "s", "e", " ", "c", "o", "d", "e", " ", "\"", "i", "F", "e", "r", "a", "l", "\"">>

Separator == <<" ", "i", "n", " ">>

SkipFragment(eText) == Contains(eText, PromoPhrase)

(* the loop over powerLevel: i is the index of the first non-digit, or *)
(* Len + 1 when the token is all digits                                *)
FirstNonDigit(powerLevel) ==
    IF \E i \in 1..Len(powerLevel) : ~IsDigit(powerLevel[i])
    THEN CHOOSE i \in 1..Len(powerLevel) :
            /\ ~IsDigit(powerLevel[i])
            /\ \A j \in 1..(i - 1) : IsDigit(powerLevel[j])
    ELSE Len(powerLevel) + 1

PartsArea(parts) == TrimSpace(parts[2])

ExtractFields(eText) ==
    LET text  == TrimSpace(eText)
        parts == Split(text, Separator)
    IN  IF Len(parts) < 2 THEN <<>>
        ELSE
          LET area     == PartsArea(parts)
              mainPart == parts[1]
              fields   == Fields(mainPart)
          IN  IF Len(fields) < 2 THEN <<>>
              ELSE
                LET amount     == fields[1]
                    powerLevel == fields[2]
                    i          == FirstNonDigit(powerLevel)
                    powerLevelDigits == SubSeq(powerLevel, 1, i - 1)
                    rest       == Join(SliceFrom(fields, 3), <<" ">>)
                    mt0        == IF i <= Len(powerLevel)
                                  THEN SliceFrom(powerLevel, i) \o <<" ">> \o rest
                                  ELSE <<>>
                    missionType == IF mt0 = <<>> THEN rest ELSE mt0
                IN  << [Amount      |-> amount,
                        PowerLevel  |-> powerLevelDigits,
                        MissionType |-> TrimSpace(missionType),
                        Area        |-> area] >>

OnHTML(missions, eText) ==
    IF SkipFragment(eText) THEN missions ELSE missions \o ExtractFields(eText)

RECURSIVE Scrape(_, _)
Scrape(missions, fragments) ==
    IF fragments = <<>> THEN missions
    ELSE Scrape(OnHTML(missions, Head(fragments)), Tail(fragments))

----------------------------------------------------------------------------
(* formatMissionsForTelegram, escapeMarkdown, strconv.Atoi, %d *)

(* faulty variant: the backslash itself is put on the list of characters to escape *)
specialChars_WithBackslash ==
    <<"_", "*", "[", "]", "(", ")", "~", "<grave>", ">", "#", "+", "-", "=", "|", "{", "}", ".", "!", "\\">>

specialChars ==
    <<"_", "*", "[", "]", "(", ")", "~", "<grave>", ">", "#", "+", "-", "=", "|", "{", "}", ".", "!">>

RECURSIVE EscapePasses(_, _)
EscapePasses(text, chars) ==
    IF chars = <<>> THEN text
    ELSE EscapePasses(ReplaceAll(text, Head(chars), <<"\\", Head(chars)>>), Tail(chars))

escapeMarkdown(text) == EscapePasses(text, specialChars)

(* the machine int, IntBits wide, in twos complement *)

IntCutoff == 2 ^ (IntBits - 1)

WrapInt(x) == ((x + IntCutoff) % (2 * IntCutoff)) - IntCutoff

DigitValue(c) == (CHOOSE i \in 1..10 : Digits[i] = c) - 1

RECURSIVE DecimalValue(_)
DecimalValue(s) ==
    IF s = <<>> THEN 0
    ELSE 10 * DecimalValue(SubSeq(s, 1, Len(s) - 1)) + DigitValue(s[Len(s)])

(* strconv.Atoi: the value returned next to the error *)
Atoi(s) ==
    LET signed == s # <<>> /\ s[1] \in {"+", "-"}
        neg    == s # <<>> /\ s[1] = "-"
        body   == IF signed THEN Tail(s) ELSE s
    IN  IF body = <<>> \/ \E i \in 1..Len(body) : ~IsDigit(body[i])
        THEN [val |-> 0, err |-> "ErrSyntax"]
        ELSE LET un == DecimalValue(body)
             IN  IF ~neg /\ un >= IntCutoff
                 THEN [val |-> IntCutoff - 1, err |-> "ErrRange"]
                 ELSE IF neg /\ un > IntCutoff
                 THEN [val |-> 0 - IntCutoff, err |-> "ErrRange"]
                 ELSE [val |-> IF neg THEN 0 - un ELSE un, err |-> "nil"]

RECURSIVE UItoa(_)
UItoa(n) ==
    IF n < 10 THEN <<Digits[n + 1]>>
    ELSE UItoa(n \div 10) \o <<Digits[(n % 10) + 1]>>

Itoa(n) == IF n < 0 THEN <<"-">> \o UItoa(0 - n) ELSE UItoa(n)

TitleText == <<"*", "V", "\\", "-", "B", "u", "c", "k", "s", " ", "M", "i", "s", "s", "i", "o", "n", "s", " ", "T", "o", "d", "a", "y", "*", "\n", "\n">>

NoMissionsText == <<"*", "N", "o", " ", "V", "\\", "-", "B", "u", "c", "k", "s", " ", "m", "i", "s", "s", "i", "o", "n", "s", " ", "f", "o", "u", "n", "d", " ", "t", "o", "d", "a", "y", "*">>

LineDot == <<"\\", ".", " ", "P", "L", " ">>

LineDash == <<" ", "\\", "-", " ", "*">>

LineEnd == <<" ", "V", "\\", "-", "B", "u", "c", "k", "s", "*", "\n">>

TotalHead == <<"\n", "*", "T", "o", "t", "a", "l", ":", " ">>

TotalEnd == <<" ", "V", "\\", "-", "B", "u", "c", "k", "s", "*">>

MissionLine(i, mission) ==
    Itoa(i) \o LineDot
        \o escapeMarkdown(mission.PowerLevel) \o <<" ">>
        \o escapeMarkdown(mission.MissionType) \o Separator
        \o escapeMarkdown(mission.Area) \o LineDash
        \o escapeMarkdown(mission.Amount) \o LineEnd

RECURSIVE MissionLines(_, _)
MissionLines(missions, i) ==
    IF i > Len(missions) THEN <<>>
    ELSE MissionLine(i, missions[i]) \o MissionLines(missions, i + 1)

RECURSIVE TotalFrom(_, _, _)
TotalFrom(missions, i, total) ==
    IF i > Len(missions) THEN total
    ELSE TotalFrom(missions, i + 1, WrapInt(total + Atoi(missions[i].Amount).val))

Total(missions) == TotalFrom(missions, 1, 0)

formatMissionsForTelegram(missions) ==
    IF Len(missions) > 0
    THEN TitleText \o MissionLines(missions, 1)
            \o TotalHead \o Itoa(Total(missions)) \o TotalEnd
    ELSE NoMissionsText

----------------------------------------------------------------------------
(* package time: the UTC calendar of an instant *)

TicksPerMonth == TicksPerDay * DaysPerMonth

TicksPerYear == TicksPerMonth * MonthsPerYear

Year(t) == t \div TicksPerYear

Month(t) == ((t % TicksPerYear) \div TicksPerMonth) + 1

Day(t) == ((t % TicksPerMonth) \div TicksPerDay) + 1

(* time.Date(year, month, day, 0, 10, 0, 0, time.UTC) *)
DateAtReset(year, month, day) ==
    year * TicksPerYear + (month - 1) * TicksPerMonth + (day - 1) * TicksPerDay + ResetTick

(* faulty variant: not strict *)
AfterOrEqual(t, u) == t >= u

After(t, u) == t > u

----------------------------------------------------------------------------
(* encoding/json, as used for CacheData *)

InvalidByte == "<FF>"

ReplacementRune == "<FFFD>"

(* string values are coerced to valid UTF-8 on encoding *)
ToValidUTF8(s) ==
    [i \in 1..Len(s) |-> IF s[i] = InvalidByte THEN ReplacementRune ELSE s[i]]

MarshalMission(m) ==
    [Area        |-> ToValidUTF8(m.Area),
     PowerLevel  |-> ToValidUTF8(m.PowerLevel),
     Amount      |-> ToValidUTF8(m.Amount),
     MissionType |-> ToValidUTF8(m.MissionType)]

(* a nil slice encodes as null, anything else as an array *)
Marshal(cd) ==
    [Timestamp      |-> cd.Timestamp,
     VBucksMissions |->
        IF cd.VBucksMissions = <<>>
        THEN [null |-> TRUE, items |-> <<>>]
        ELSE [null |-> FALSE,
              items |-> [i \in 1..Len(cd.VBucksMissions) |->
                            MarshalMission(cd.VBucksMissions[i])]]]

Unmarshal(doc) ==
    [Timestamp      |-> doc.Timestamp,
     VBucksMissions |-> IF doc.VBucksMissions.null THEN <<>>
                        ELSE doc.VBucksMissions.items]

----------------------------------------------------------------------------
(* The cache file and the Cache Store *)

ZeroTime == 0 - 1

ZeroCacheData == [Timestamp |-> ZeroTime, VBucksMissions |-> <<>>]

NoFile == [state |-> "absent", doc |-> Marshal(ZeroCacheData)]

CorruptFile == [state |-> "corrupt", doc |-> Marshal(ZeroCacheData)]

JSONFile(doc) == [state |-> "json", doc |-> doc]

(* faulty variant: the snapshot time is compared with the clock, not with the reset *)
CacheIsValid_AgainstNow(cacheTime, t) ==
    LET todayReset == DateAtReset(Year(t), Month(t), Day(t))
    IN  /\ After(cacheTime, t)
        /\ After(t, todayReset)
        /\ Year(cacheTime) = Year(t)
        /\ Month(cacheTime) = Month(t)
        /\ Day(cacheTime) = Day(t)

CacheIsValid(cacheTime, t) ==
    LET todayReset == DateAtReset(Year(t), Month(t), Day(t))
    IN  /\ After(cacheTime, todayReset)
        /\ After(t, todayReset)
        /\ Year(cacheTime) = Year(t)
        /\ Month(cacheTime) = Month(t)
        /\ Day(cacheTime) = Day(t)

(* faulty variant: a parse error does not return early *)
loadFromCache_ParseErrorIgnored(file, readOk, t) ==
    IF file.state = "absent"
    THEN [data |-> ZeroCacheData, valid |-> FALSE, err |-> "notexist"]
    ELSE IF ~readOk
    THEN [data |-> ZeroCacheData, valid |-> FALSE, err |-> "read"]
    ELSE LET data == Unmarshal(file.doc)
         IN  [data |-> data,
              valid |-> file.state = "corrupt" \/ CacheIsValid(data.Timestamp, t),
              err |-> IF file.state = "corrupt" THEN "parse" ELSE "nil"]

(* readOk: whether ioutil.ReadFile succeeds; t: time.Now().UTC() *)
loadFromCache(file, readOk, t) ==
    IF file.state = "absent"
    THEN [data |-> ZeroCacheData, valid |-> FALSE, err |-> "notexist"]
    ELSE IF ~readOk
    THEN [data |-> ZeroCacheData, valid |-> FALSE, err |-> "read"]
    ELSE IF file.state = "corrupt"
    THEN [data |-> ZeroCacheData, valid |-> FALSE, err |-> "parse"]
    ELSE LET data == Unmarshal(file.doc)
         IN  [data |-> data, valid |-> CacheIsValid(data.Timestamp, t), err |-> "nil"]

(* outcome of ioutil.WriteFile: "ok"; "open", the file could not be opened *)
(* and is left as it was; "partial", the file was truncated and the write  *)
(* stopped before the end of the data                                      *)
WriteOutcomes == {"ok", "open", "partial"}

saveToCache(file, missions, t, outcome) ==
    LET data == Marshal([Timestamp |-> t, VBucksMissions |-> missions])
    IN  IF outcome = "ok" THEN JSONFile(data)
        ELSE IF outcome = "partial" THEN CorruptFile
        ELSE file

----------------------------------------------------------------------------
(* The bot: main's update loop and getMissions *)

FragA == <<"5", " ", "8", "0", " ", "x", " ", "i", "n", " ", "A">>

FragPromo == PromoPhrase \o <<" ", "i", "n", " ", "A">>

FragBad == <<"5", " ", "8", "0", " ", "x", " ", "i", "n", " ", InvalidByte>>

(* what the upstream page may hold when it is visited *)
Pages == { <<>>, <<FragA, FragPromo, FragBad>> }

NoMessage == [kind |-> "none", text |-> <<>>, ParseMode |-> ""]

PlainMessage(kind) == [kind |-> kind, text |-> <<>>, ParseMode |-> ""]

MissionsMessage(missions) ==
    [kind |-> "missions", text |-> formatMissionsForTelegram(missions),
     ParseMode |-> "MarkdownV2"]

NoSave == [status |-> "none", at |-> ZeroTime, arg |-> <<>>]

NoCall == [load |-> "nil", write |-> "none"]

BotMaxTime == BotDays * TicksPerDay - 1

(* faulty variant: every update is handled in a goroutine of its own *)
AtLoopHead_OwnGoroutine == pc # "exited"

(* the goroutine is at the head of its loop, receiving from the channel *)
AtLoopHead == pc = "recv"

(* bot.GetUpdatesChan's poller puts an update into the channel *)
Arrive ==
    /\ pc # "exited"
    /\ pending < MaxPending
    /\ pending' = pending + 1
    /\ UNCHANGED <<now, cacheFile, pc, running, page, vbucksMissions, cacheData,
                   cacheValid, sent, loadErr, prevCall, fetchErr, lastSave>>

(* update.Message == nil: continue *)
RecvNoMessage ==
    /\ AtLoopHead
    /\ pending > 0
    /\ pending' = pending - 1
    /\ UNCHANGED <<now, cacheFile, pc, running, page, vbucksMissions, cacheData,
                   cacheValid, sent, loadErr, prevCall, fetchErr, lastSave>>

(* a message that is not a command: logged, nothing sent *)
RecvText ==
    /\ AtLoopHead
    /\ pending > 0
    /\ pending' = pending - 1
    /\ UNCHANGED <<now, cacheFile, pc, running, page, vbucksMissions, cacheData,
                   cacheValid, sent, loadErr, prevCall, fetchErr, lastSave>>

(* case "start": the welcome message, then getMissions is called *)
CmdStart ==
    /\ AtLoopHead
    /\ pending > 0
    /\ pending' = pending - 1
    /\ sent' = PlainMessage("welcome")
    /\ running' = running + 1
    /\ pc' = "load"
    /\ UNCHANGED <<now, cacheFile, page, vbucksMissions, cacheData, cacheValid,
                   loadErr, prevCall, fetchErr, lastSave>>

(* case "vbucks": getMissions is called *)
CmdVbucks ==
    /\ AtLoopHead
    /\ pending > 0
    /\ pending' = pending - 1
    /\ running' = running + 1
    /\ pc' = "load"
    /\ UNCHANGED <<now, cacheFile, page, vbucksMissions, cacheData, cacheValid,
                   sent, loadErr, prevCall, fetchErr, lastSave>>

CmdHelp ==
    /\ AtLoopHead
    /\ pending > 0
    /\ pending' = pending - 1
    /\ sent' = PlainMessage("help")
    /\ UNCHANGED <<now, cacheFile, pc, running, page, vbucksMissions, cacheData,
                   cacheValid, loadErr, prevCall, fetchErr, lastSave>>

CmdUnknown ==
    /\ AtLoopHead
    /\ pending > 0
    /\ pending' = pending - 1
    /\ sent' = PlainMessage("unknown")
    /\ UNCHANGED <<now, cacheFile, pc, running, page, vbucksMissions, cacheData,
                   cacheValid, loadErr, prevCall, fetchErr, lastSave>>

(* getMissions: loadFromCache reports a valid cache; its records are returned *)
LoadHit ==
    /\ pc = "load"
    /\ \E readOk \in BOOLEAN :
         LET r == loadFromCache(cacheFile, readOk, now)
         IN  /\ r.valid
             /\ cacheData' = r.data
             /\ cacheValid' = r.valid
             /\ loadErr' = r.err
             /\ vbucksMissions' = r.data.VBucksMissions
             /\ prevCall' = [load |-> r.err, write |-> "none"]
    /\ running' = running - 1
    /\ pc' = "send"
    /\ UNCHANGED <<now, cacheFile, pending, page, sent, fetchErr, lastSave>>

(* getMissions: loadFromCache reports no valid cache; fetchMissions comes next *)
LoadMiss ==
    /\ pc = "load"
    /\ \E readOk \in BOOLEAN :
         LET r == loadFromCache(cacheFile, readOk, now)
         IN  /\ ~r.valid
             /\ cacheData' = r.data
             /\ cacheValid' = r.valid
             /\ loadErr' = r.err
    /\ pc' = "fetch"
    /\ UNCHANGED <<now, cacheFile, pending, running, page, vbucksMissions, sent,
                   prevCall, fetchErr, lastSave>>

(* fetchMissions: c.Visit succeeds, the callback ran on every fragment *)
FetchOk ==
    /\ pc = "fetch"
    /\ \E p \in Pages : vbucksMissions' = Scrape(<<>>, p)
    /\ fetchErr' = FALSE
    /\ pc' = "save"
    /\ UNCHANGED <<now, cacheFile, pending, running, page, cacheData, cacheValid,
                   sent, loadErr, prevCall, lastSave>>

(* fetchMissions: c.Visit returns an error; log.Fatal ends the process *)
FetchFail ==
    /\ pc = "fetch"
    /\ fetchErr' = TRUE
    /\ pc' = "exited"
    /\ UNCHANGED <<now, cacheFile, pending, running, page, vbucksMissions,
                   cacheData, cacheValid, sent, loadErr, prevCall, lastSave>>

(* getMissions: saveToCache, then return *)
Save ==
    /\ pc = "save"
    /\ \E outcome \in WriteOutcomes :
         /\ cacheFile' = saveToCache(cacheFile, vbucksMissions, now, outcome)
         /\ prevCall' = [load |-> loadErr,
                         write |-> IF outcome = "ok" THEN "ok" ELSE "failed"]
         /\ lastSave' = IF outcome = "ok"
                        THEN [status |-> "ok", at |-> now, arg |-> vbucksMissions]
                        ELSE NoSave
    /\ running' = running - 1
    /\ pc' = "send"
    /\ UNCHANGED <<now, pending, page, vbucksMissions, cacheData, cacheValid,
                   sent, loadErr, fetchErr>>

(* the handler formats the missions and sends them; the locals go away *)
Send ==
    /\ pc = "send"
    /\ sent' = MissionsMessage(vbucksMissions)
    /\ vbucksMissions' = <<>>
    /\ cacheData' = ZeroCacheData
    /\ cacheValid' = FALSE
    /\ pc' = "recv"
    /\ UNCHANGED <<now, cacheFile, pending, running, page, loadErr, prevCall,
                   fetchErr, lastSave>>

(* the clock advances *)
Tick ==
    /\ pc # "exited"
    /\ now < BotMaxTime
    /\ now' = now + 1
    /\ UNCHANGED <<cacheFile, pc, pending, running, page, vbucksMissions, cacheData,
                   cacheValid, sent, loadErr, prevCall, fetchErr, lastSave>>

(* the cache file found at start was left by an earlier run *)
Init ==
    /\ now \in 0..BotMaxTime
    /\ cacheFile \in {NoFile, CorruptFile} \cup
          { JSONFile(Marshal([Timestamp |-> t, VBucksMissions |-> Scrape(<<>>, p)])) :
              t \in 0..now, p \in Pages }
    /\ pc = "recv"
    /\ pending = 0
    /\ running = 0
    /\ page = <<>>
    /\ vbucksMissions = <<>>
    /\ cacheData = ZeroCacheData
    /\ cacheValid = FALSE
    /\ sent = NoMessage
    /\ loadErr = "nil"
    /\ prevCall = NoCall
    /\ fetchErr = FALSE
    /\ lastSave = NoSave

Next ==
    \/ Arrive
    \/ RecvNoMessage
    \/ RecvText
    \/ CmdStart
    \/ CmdVbucks
    \/ CmdHelp
    \/ CmdUnknown
    \/ LoadHit
    \/ LoadMiss
    \/ FetchOk
    \/ FetchFail
    \/ Save
    \/ Send
    \/ Tick

Spec == Init /\ [][Next]_vars

----------------------------------------------------------------------------
(* The Field Extractor on its own: one fragment, the callback applied once *)

Pieces ==
    { <<"5">>,
      <<" ", "2", "a">>,
      <<" ", "8", "0">>,
      <<" ", "x">>,
      <<" ", "i", "n", " ", "A">>,
      Separator,
      <<" ">>,
      PromoPhrase }

RECURSIVE Flatten(_)
Flatten(ss) == IF ss = <<>> THEN <<>> ELSE Head(ss) \o Flatten(Tail(ss))

SeqsUpTo(S, n) == UNION { [1..k -> S] : k \in 0..n }

Fragments == { Flatten(ps) : ps \in SeqsUpTo(Pieces, MaxPieces) }

InitExtract ==
    /\ page \in { <<f>> : f \in Fragments }
    /\ pc = "extract"
    /\ vbucksMissions = <<>>
    /\ now = 0
    /\ cacheFile = NoFile
    /\ pending = 0
    /\ running = 0
    /\ cacheData = ZeroCacheData
    /\ cacheValid = FALSE
    /\ sent = NoMessage
    /\ loadErr = "nil"
    /\ prevCall = NoCall
    /\ fetchErr = FALSE
    /\ lastSave = NoSave

ExtractFragment ==
    /\ pc = "extract"
    /\ vbucksMissions' = Scrape(vbucksMissions, page)
    /\ pc' = "extracted"
    /\ UNCHANGED <<now, cacheFile, pending, running, page, cacheData, cacheValid,
                   sent, loadErr, prevCall, fetchErr, lastSave>>

NextExtract == ExtractFragment

SpecExtract == InitExtract /\ [][NextExtract]_vars

----------------------------------------------------------------------------
(* The Presentation Formatter on its own: one record list, formatted once *)

Mission(amount, powerLevel, missionType, area) ==
    [Amount |-> amount, PowerLevel |-> powerLevel,
     MissionType |-> missionType, Area |-> area]

RecordPool ==
    { Mission(<<"1", "0", "0">>, <<"8", "0">>, <<"a", "-", "b">>, <<"S", ".">>),
      Mission(<<>>, <<>>, <<"x">>, <<"A">>),
      Mission(<<"x", "1">>, <<"2">>, <<"a">>, <<"A", "!">>),
      Mission(<<"1", "2", "8">>, <<"9">>, <<"a">>, <<"A">>),
      Mission(<<"9", "9", "9">>, <<"9">>, <<"_", "a", "_">>, <<"A">>),
      Mission(<<"-", "5">>, <<"1">>, <<"\\", "a">>, <<"(", "A", ")">>),
      Mission(<<"2", "7">>, <<"1">>, <<"a">>, <<"A">>) }

TextChars == { specialChars[i] : i \in 1..Len(specialChars) } \cup {"\\", "a"}

Texts == SeqsUpTo(TextChars, MaxTextLen)

PlainMission == Mission(<<"7">>, <<"1">>, <<"a">>, <<"A">>)

ProbeMissions ==
    { [PlainMission EXCEPT ![f] = t] :
        f \in {"Amount", "PowerLevel", "MissionType", "Area"}, t \in Texts }

InitFormat ==
    /\ vbucksMissions \in SeqsUpTo(RecordPool, MaxMissions)
                            \cup { <<m>> : m \in ProbeMissions }
    /\ pc = "format"
    /\ page = <<>>
    /\ now = 0
    /\ cacheFile = NoFile
    /\ pending = 0
    /\ running = 0
    /\ cacheData = ZeroCacheData
    /\ cacheValid = FALSE
    /\ sent = NoMessage
    /\ loadErr = "nil"
    /\ prevCall = NoCall
    /\ fetchErr = FALSE
    /\ lastSave = NoSave

FormatMissions ==
    /\ pc = "format"
    /\ sent' = MissionsMessage(vbucksMissions)
    /\ pc' = "formatted"
    /\ UNCHANGED <<now, cacheFile, pending, running, page, vbucksMissions, cacheData,
                   cacheValid, loadErr, prevCall, fetchErr, lastSave>>

NextFormat == FormatMissions

SpecFormat == InitFormat /\ [][NextFormat]_vars

----------------------------------------------------------------------------
(* loadFromCache on its own: any cache file, any clock reading *)

LoadMaxTime == LoadDays * TicksPerDay - 1

InitLoad ==
    /\ now \in 0..LoadMaxTime
    /\ cacheFile \in {NoFile, CorruptFile} \cup
          { JSONFile(Marshal([Timestamp |-> t, VBucksMissions |-> Scrape(<<>>, p)])) :
              t \in 0..LoadMaxTime, p \in Pages }
    /\ pc = "check"
    /\ pending = 0
    /\ running = 0
    /\ page = <<>>
    /\ vbucksMissions = <<>>
    /\ cacheData = ZeroCacheData
    /\ cacheValid = FALSE
    /\ sent = NoMessage
    /\ loadErr = "nil"
    /\ prevCall = NoCall
    /\ fetchErr = FALSE
    /\ lastSave = NoSave

CheckCache ==
    /\ pc = "check"
    /\ \E readOk \in BOOLEAN :
         LET r == loadFromCache(cacheFile, readOk, now)
         IN  /\ cacheData' = r.data
             /\ cacheValid' = r.valid
             /\ loadErr' = r.err
    /\ pc' = "checked"
    /\ UNCHANGED <<now, cacheFile, pending, running, page, vbucksMissions, sent,
                   prevCall, fetchErr, lastSave>>

NextLoad == CheckCache

SpecLoad == InitLoad /\ [][NextLoad]_vars

----------------------------------------------------------------------------
(* Vocabulary of the properties *)

UTCDayNumber(t) == t \div TicksPerDay

TickOfDay(t) == t % TicksPerDay

SameUTCDate(t, u) == UTCDayNumber(t) = UTCDayNumber(u)

AfterResetOfItsDay(t) == TickOfDay(t) > ResetTick

HasSuffix(s, suffix) ==
    /\ Len(suffix) <= Len(s)
    /\ SubSeq(s, Len(s) - Len(suffix) + 1, Len(s)) = suffix

(* a getMissions call finishes its load in this step *)
LoadStep == pc = "load" /\ pc' # "load"

(* a getMissions call finishes its save in this step *)
SaveStep == pc = "save" /\ pc' # "save"

----------------------------------------------------------------------------
(* C1: loadFromCache reports the cache valid exactly when the file is      *)
(* present, read and parsed, capturedAt is strictly after 00:10:00 UTC of  *)
(* the current day, the current time is strictly after it too, and both    *)
(* fall on the same UTC date; so never at or before 00:10 and never for a  *)
(* capture of another UTC date.                                            *)
C1_ValidIffSameDayAfterReset ==
    pc = "checked" =>
      LET capturedAt == cacheFile.doc.Timestamp
          todayReset == UTCDayNumber(now) * TicksPerDay + ResetTick
      IN  /\ cacheValid <=>
                /\ cacheFile.state = "json"
                /\ loadErr = "nil"
                /\ capturedAt > todayReset
                /\ now > todayReset
                /\ SameUTCDate(capturedAt, now)
          /\ TickOfDay(now) <= ResetTick => ~cacheValid
          /\ (cacheFile.state = "json" /\ ~SameUTCDate(capturedAt, now)) => ~cacheValid

C1_Witness ==
    /\ pc = "checked"
    /\ cacheValid
    /\ cacheData.VBucksMissions # <<>>

(* C2 as stated: once a call has fetched and saved a snapshot on a UTC     *)
(* day, every later call on that UTC day is served from that snapshot,     *)
(* with no fetch and no cache write (here even granted that the later      *)
(* call reads the file without an I/O error).                              *)
ServedFromLastSave ==
    /\ pc' = "send"
    /\ cacheFile' = cacheFile
    /\ cacheFile.state = "json"
    /\ cacheFile.doc.Timestamp = lastSave.at
    /\ vbucksMissions' = Unmarshal(cacheFile.doc).VBucksMissions
    /\ lastSave' = lastSave

C2_CachedOncePerDay ==
    [][ ( /\ LoadStep
          /\ lastSave.status = "ok"
          /\ SameUTCDate(lastSave.at, now)
          /\ loadErr' # "read" )
            => ServedFromLastSave ]_vars

(* C2 as amended: the snapshot must have been saved strictly after         *)
(* 00:10:00 UTC, and the later call must be able to read the file.         *)
C2_CachedAfterResetOncePerDay ==
    [][ ( /\ LoadStep
          /\ lastSave.status = "ok"
          /\ SameUTCDate(lastSave.at, now)
          /\ AfterResetOfItsDay(lastSave.at)
          /\ loadErr' # "read" )
            => ServedFromLastSave ]_vars

C2_Witness ==
    /\ pc = "send"
    /\ cacheValid
    /\ lastSave.status = "ok"
    /\ cacheData.Timestamp = lastSave.at
    /\ vbucksMissions # <<>>

(* C3: saveToCache(records) followed by loadFromCache, both on the same    *)
(* UTC day after 00:10 UTC, with the write and the read succeeding, gives  *)
(* isValid = true and records equal to the saved ones, field for field     *)
(* and in the same order.                                                  *)
C3_SaveLoadRoundTrip ==
    [][ ( /\ LoadStep
          /\ lastSave.status = "ok"
          /\ SameUTCDate(lastSave.at, now)
          /\ AfterResetOfItsDay(lastSave.at)
          /\ AfterResetOfItsDay(now)
          /\ loadErr' = "nil" )
            => (cacheValid' /\ cacheData'.VBucksMissions = lastSave.arg) ]_vars

(* C4: in bot mode an upstream fetch failure does not end the process:     *)
(* the request is answered and the listener goes on.                       *)
C4_FetchFailureRecoverable ==
    fetchErr => pc \in {"send", "recv", "load", "fetch", "save"}

(* C9 as stated and as amended share these parts.                          *)
(* A cache read failure (file absent, unreadable or corrupt) is a cache    *)
(* miss: the call goes on to fetch and the file is left alone.             *)
ReadFailureIsMiss ==
    [][ (LoadStep /\ loadErr' # "nil")
            => (pc' = "fetch" /\ ~cacheValid' /\ cacheFile' = cacheFile) ]_vars

(* Whatever the write does, the call returns the records it fetched; a     *)
(* write that succeeds overwrites the cache with them.                     *)
WriteFailureKeepsResult ==
    [][ SaveStep =>
          /\ pc' = "send"
          /\ vbucksMissions' = vbucksMissions
          /\ prevCall'.write = "ok" =>
                Unmarshal(cacheFile'.doc).VBucksMissions
                    = Unmarshal(Marshal([Timestamp |-> now,
                                         VBucksMissions |-> vbucksMissions])).VBucksMissions
          /\ prevCall'.write = "ok" => cacheFile'.state = "json" ]_vars

(* The process ends on an upstream fetch failure only. *)
OnlyFetchFailureExits == [](pc = "exited" => fetchErr)

(* C9 as stated: cache failures are non-fatal and self-healing; after a    *)
(* failed cache write the next getMissions call refetches.                 *)
C9_CacheFailuresSelfHeal ==
    /\ ReadFailureIsMiss
    /\ WriteFailureKeepsResult
    /\ OnlyFetchFailureExits
    /\ [][ (LoadStep /\ prevCall.write = "failed") => pc' = "fetch" ]_vars

(* C9 as amended: after a failed cache write the next call refetches,      *)
(* unless the failed call had missed the cache only because it could not   *)
(* read the file; the file may then still hold a valid snapshot.           *)
C9_CacheFailuresNonFatal ==
    /\ ReadFailureIsMiss
    /\ WriteFailureKeepsResult
    /\ OnlyFetchFailureExits
    /\ [][ (LoadStep /\ prevCall.write = "failed" /\ prevCall.load # "read")
              => pc' = "fetch" ]_vars

C9_Witness ==
    /\ pc = "send"
    /\ prevCall.write = "failed"
    /\ prevCall.load \in {"notexist", "read", "parse"}
    /\ vbucksMissions # <<>>

(* C10: getMissions executions never overlap: at most one is between its   *)
(* load and its save, and the cache file is written only by that one.      *)
C10_NoOverlappingGetMissions ==
    /\ [](running <= 1)
    /\ [](pc \in {"load", "fetch", "save"} => running = 1)
    /\ [](pc \in {"recv", "send"} => running = 0)
    /\ [][ cacheFile' # cacheFile => (pc = "save" /\ running = 1) ]_vars
    /\ [][ running' > running => (pc = "recv" /\ running = 0) ]_vars

C10_Witness ==
    /\ pc = "fetch"
    /\ running = 1
    /\ pending = MaxPending

----------------------------------------------------------------------------
(* The fragment as the properties read it: split at the FIRST separator *)

Fragment == TrimSpace(page[1])

BeforeFirstSeparator(t) == SubSeq(t, 1, Index(t, Separator) - 1)

AfterFirstSeparator(t) == SliceFrom(t, Index(t, Separator) + Len(Separator))

RECURSIVE LeadingDigits(_)
LeadingDigits(token) ==
    IF token # <<>> /\ IsDigit(Head(token))
    THEN <<Head(token)>> \o LeadingDigits(Tail(token))
    ELSE <<>>

(* amount, powerLevel and missionType read off the tokens before the separator *)
ExpectedMain(tokens) ==
    LET digits == LeadingDigits(tokens[2])
        suffix == SliceFrom(tokens[2], Len(digits) + 1)
        rest   == Join(SliceFrom(tokens, 3), <<" ">>)
    IN  [Amount      |-> tokens[1],
         PowerLevel  |-> digits,
         MissionType |-> TrimSpace(suffix \o <<" ">> \o rest)]

MainOf(m) ==
    [Amount |-> m.Amount, PowerLevel |-> m.PowerLevel, MissionType |-> m.MissionType]

Extracted == pc = "extracted" /\ ~SkipFragment(page[1])

(* C5: a well-formed fragment "<amount> <digits><suffix> <rest...> in      *)
(* <area>" yields exactly one record, with amount the first token,         *)
(* powerLevel the leading digits of the second, missionType                *)
(* trim(suffix + " " + rest) and area the trimmed text after the           *)
(* separator; a fragment without separator, or with fewer than two tokens  *)
(* before it, yields no record.                                            *)
C5_WellFormedFragmentExtraction ==
    Extracted =>
      IF Contains(Fragment, Separator)
            /\ Len(Fields(BeforeFirstSeparator(Fragment))) >= 2
      THEN /\ Len(vbucksMissions) = 1
           /\ MainOf(vbucksMissions[1]) = ExpectedMain(Fields(BeforeFirstSeparator(Fragment)))
           /\ vbucksMissions[1].Area = TrimSpace(AfterFirstSeparator(Fragment))
      ELSE vbucksMissions = <<>>

(* C6: the fragment is split at the first " in ": the area is everything   *)
(* after the first occurrence, trimmed, later occurrences included, and    *)
(* the other fields come from the part before the first occurrence.        *)
C6_SplitAtFirstSeparator ==
    (Extracted /\ vbucksMissions # <<>>) =>
      /\ Contains(Fragment, Separator)
      /\ vbucksMissions[1].Area = TrimSpace(AfterFirstSeparator(Fragment))
      /\ vbucksMissions[1].Amount = Fields(BeforeFirstSeparator(Fragment))[1]
      /\ vbucksMissions[1].PowerLevel
            = LeadingDigits(Fields(BeforeFirstSeparator(Fragment))[2])

(* What does hold of the extractor: everything but the area, and the area  *)
(* too when the separator occurs once.                                     *)
ExtractionExceptArea ==
    Extracted =>
      IF Contains(Fragment, Separator)
            /\ Len(Fields(BeforeFirstSeparator(Fragment))) >= 2
      THEN /\ Len(vbucksMissions) = 1
           /\ MainOf(vbucksMissions[1]) = ExpectedMain(Fields(BeforeFirstSeparator(Fragment)))
           /\ vbucksMissions[1].Area = TrimSpace(Split(Fragment, Separator)[2])
           /\ Len(Split(Fragment, Separator)) = 2 =>
                vbucksMissions[1].Area = TrimSpace(AfterFirstSeparator(Fragment))
      ELSE vbucksMissions = <<>>

----------------------------------------------------------------------------
(* The escaped list as the properties read it *)

MarkupSignificant ==
    {"_", "*", "[", "]", "(", ")", "~", "<grave>", ">", "#", "+", "-", "=", "|",
     "{", "}", ".", "!"}

(* every markup-significant character prefixed by one backslash, the rest unchanged *)
EscapeEach(text) ==
    Flatten([i \in 1..Len(text) |->
                IF text[i] \in MarkupSignificant THEN <<"\\", text[i]>> ELSE <<text[i]>>])

ExpectedLine(i, m) ==
    Itoa(i) \o LineDot \o EscapeEach(m.PowerLevel) \o <<" ">> \o EscapeEach(m.MissionType)
        \o Separator \o EscapeEach(m.Area) \o LineDash \o EscapeEach(m.Amount) \o LineEnd

Footer(total) == TotalHead \o Itoa(total) \o TotalEnd

(* an amount that fails integer parsing counts 0 *)
ParsedOrZero(amount) == IF Atoi(amount).err = "nil" THEN Atoi(amount).val ELSE 0

RECURSIVE SumParsedOrZero(_)
SumParsedOrZero(missions) ==
    IF missions = <<>> THEN 0
    ELSE WrapInt(SumParsedOrZero(SubSeq(missions, 1, Len(missions) - 1))
                    + ParsedOrZero(missions[Len(missions)].Amount))

(* C7: for a non-empty list the footer total is the sum of the amounts     *)
(* parsed as integers (in machine arithmetic), every amount that fails to  *)
(* parse, out-of-range digit strings included, counting exactly 0.         *)
C7_TotalCountsUnparsableAsZero ==
    (pc = "formatted" /\ vbucksMissions # <<>>) =>
        HasSuffix(sent.text, Footer(SumParsedOrZero(vbucksMissions)))

(* What does hold of the total: the sum, wrapping, of Atoi's values. *)
TotalIsSumOfAtoiValues ==
    (pc = "formatted" /\ vbucksMissions # <<>>) =>
        HasSuffix(sent.text, Footer(Total(vbucksMissions)))

(* C8: in the escaped list every field is emitted with each                *)
(* markup-significant character prefixed by exactly one backslash and      *)
(* every other character unchanged; no pass escapes a backslash added by   *)
(* an earlier pass.                                                        *)
C8_FieldsEscapedOnce ==
    (pc = "formatted" /\ vbucksMissions # <<>>) =>
        sent.text = TitleText
                      \o Flatten([i \in 1..Len(vbucksMissions) |->
                                    ExpectedLine(i, vbucksMissions[i])])
                      \o Footer(Total(vbucksMissions))

C8_Witness ==
    /\ pc = "formatted"
    /\ vbucksMissions # <<>>
    /\ vbucksMissions[1].Area = <<"\\", "_">>
    /\ Contains(sent.text, <<" ", "\\", "\\", "_", " ">>)

====
